---- MODULE Spec2Model ----
(***************************************************************************)
(* A model of whatsapp_sender.py: the phone-number normaliser, the local   *)
(* credential store, the cached template fetcher and the Streamlit script  *)
(* whose send handler posts one template message per loaded lead.          *)
(*                                                                         *)
(* Text is modelled as a sequence of one-character strings, so that        *)
(* stripping, splitting and prefix tests are computed and not assumed.     *)
(* Python's None is the value NoneVal (for names and language codes) or    *)
(* NoneSeq (for character sequences).                                      *)
(***************************************************************************)
EXTENDS Integers, Sequences, FiniteSets, TLC

VARIABLES
    \* ---- number normaliser (SpecNorm) ----
    nraw,            \* the raw input string
    npieces,         \* number of pieces the input was put together from
    nout,            \* normalize_number(nraw), or Unset before the call
    nagain,          \* normalize_number(nout), or Unset before the call
    \* ---- credential store (SpecCred) ----
    secrets,         \* st.secrets["whatsapp"]: "absent", "partial" or "complete"
    credFile,        \* content of config.txt, or NoFile
    saved,           \* arguments of the last completed save_credentials, or Unset
    loaded,          \* result of the load_credentials after it, or Unset
    \* ---- the Streamlit session (Spec) ----
    numbers,         \* st.session_state["numbers"]
    success,         \* st.session_state["success"]
    failure,         \* st.session_state["failure"]
    cache,           \* the st.cache_data entry of get_whatsapp_templates, or NoCache
    file,            \* the file_uploader widget: uploaded rows, or NoFile
    lastFetch,       \* how this script run obtained the templates
    templatesDefined,\* whether the script local `templates` is bound
    templates,       \* the script local `templates`
    template_name,   \* the script local `template_name`
    send_btn,        \* the script local `send_btn`
    pc,              \* position of the script run
    runState,        \* Idle / Running / Completed, or Aborted by an uncaught exception
    lang_code,       \* the send handler's local `lang_code`
    idx,             \* number of leads whose POST has been issued
    lsuccess,        \* the send handler's local `success`
    lfailure,        \* the send handler's local `failure`
    log,             \* the send handler's local `log`
    posts,           \* history: payloads handed to requests.post in this run
    resps,           \* history: responses requests.post returned in this run
    lastCounts       \* history: 200 / non-200 rows of the last completed run's log

normVars == <<nraw, npieces, nout, nagain>>
credVars == <<secrets, credFile, saved, loaded>>
sessVars == <<numbers, success, failure, cache, file>>
runVars  == <<lastFetch, templatesDefined, templates, template_name, send_btn, pc,
              runState, lang_code, idx, lsuccess, lfailure, log, posts, resps,
              lastCounts>>
vars == <<normVars, credVars, sessVars, runVars>>

NoneVal == "<None>"
NoneSeq == <<"<None>">>
Unset   == <<"<unset>">>
NoCreds == <<Unset, Unset, Unset>>
NoFile  == <<>>
NoCache == [has |-> FALSE, value |-> <<>>]
Cached(v) == [has |-> TRUE, value |-> v]

\* ---- bounds of the model ----
MaxPieces  == 4      \* pieces the normaliser's input is put together from
MaxCredLen == 2      \* characters per credential value

\* ---- program constants ----
NormalizedLen == 10
LocalLen      == 8
TrunkLen      == 9
HttpOk        == 200

(***************************************************************************)
(* Text helpers                                                            *)
(***************************************************************************)
Digits == {"0", "1", "2", "3", "4", "5", "6", "7", "8", "9"}

IsDigit(c) == c \in Digits

\* re.sub(r"\D", "", raw)
StripNonDigits(raw) == SelectSeq(raw, IsDigit)

\* s.startswith(p)
StartsWith(s, p) == Len(s) >= Len(p) /\ SubSeq(s, 1, Len(p)) = p

Tail1(s) == SubSeq(s, 2, Len(s))

(***************************************************************************)
(* normalize_number                                                        *)
(***************************************************************************)
\* A slip in the third rule: the trunk "0" is kept.
normalize_number_keeps_zero(raw) ==
    LET s == StripNonDigits(raw) IN
    IF StartsWith(s, <<"6", "5">>) /\ Len(s) = NormalizedLen THEN s
    ELSE IF Len(s) = LocalLen THEN <<"6", "5">> \o s
    ELSE IF Len(s) = TrunkLen /\ StartsWith(s, <<"0">>) THEN <<"6", "5">> \o s
    ELSE NoneSeq

normalize_number(raw) ==
    LET s == StripNonDigits(raw) IN
    IF StartsWith(s, <<"6", "5">>) /\ Len(s) = NormalizedLen THEN s
    ELSE IF Len(s) = LocalLen THEN <<"6", "5">> \o s
    ELSE IF Len(s) = TrunkLen /\ StartsWith(s, <<"0">>) THEN <<"6", "5">> \o Tail1(s)
    ELSE NoneSeq

\* Pieces an operator types or pastes into a lead cell.
Tokens == { <<"6", "5">>, <<"+", "6", "5", " ">>, <<"0">>, <<"6">>, <<"-">>,
            <<"9", "8", "5", "7">>, <<"8", "1", "4", "1">> }

NormType(tok) ==
    /\ nout = Unset
    /\ npieces < MaxPieces
    /\ nraw' = nraw \o tok
    /\ npieces' = npieces + 1
    /\ UNCHANGED <<nout, nagain>>

NormApply ==
    /\ nout = Unset
    /\ nout' = normalize_number(nraw)
    /\ UNCHANGED <<nraw, npieces, nagain>>

NormAgain ==
    /\ nout \notin {Unset, NoneSeq}
    /\ nagain = Unset
    /\ nagain' = normalize_number(nout)
    /\ UNCHANGED <<nraw, npieces, nout>>

(***************************************************************************)
(* Credential store                                                        *)
(***************************************************************************)
CredChars == {"x", " ", "\n"}

IsSpace(c) == c \in {" ", "\n"}

RECURSIVE LStrip(_)
LStrip(s) == IF s # <<>> /\ IsSpace(Head(s)) THEN LStrip(Tail(s)) ELSE s

RECURSIVE RStrip(_)
RStrip(s) ==
    IF s # <<>> /\ IsSpace(s[Len(s)]) THEN RStrip(SubSeq(s, 1, Len(s) - 1)) ELSE s

\* str.strip()
Strip(s) == LStrip(RStrip(s))

\* Iterating an open text file: the content cut after each "\n".
RECURSIVE FileLines(_, _)
FileLines(content, cur) ==
    IF content = <<>> THEN (IF cur = <<>> THEN <<>> ELSE <<cur>>)
    ELSE IF Head(content) = "\n"
         THEN <<Append(cur, "\n")>> \o FileLines(Tail(content), <<>>)
         ELSE FileLines(Tail(content), Append(cur, Head(content)))

RECURSIVE MapStrip(_)
MapStrip(ls) == IF ls = <<>> THEN <<>> ELSE <<Strip(Head(ls))>> \o MapStrip(Tail(ls))

NonEmpty(s) == s # <<>>

\* f.write(f"{token}\n{phone_id}\n{business_id}\n") with a slip: no separator
\* between the first two values.
save_credentials_joined(token, phone_id, business_id) ==
    token \o phone_id \o <<"\n">> \o business_id \o <<"\n">>

save_credentials(token, phone_id, business_id) ==
    token \o <<"\n">> \o phone_id \o <<"\n">> \o business_id \o <<"\n">>

\* The values the secrets source holds when it has all three keys.
SecretCreds == << <<"x", "x", "x">>, <<"x", "x", "x">>, <<"x", "x", "x">> >>

EmptyCreds == << <<>>, <<>>, <<>> >>

\* A config.txt left by an earlier session.
PriorFile == <<"x", "x", "\n", "x", "\n", "x", "\n">>

load_credentials(sec, cf) ==
    IF sec = "complete" THEN SecretCreds
    ELSE IF cf # NoFile
         THEN LET lines == SelectSeq(MapStrip(FileLines(cf, <<>>)), NonEmpty) IN
              IF Len(lines) >= 3 THEN <<lines[1], lines[2], lines[3]>> ELSE EmptyCreds
         ELSE EmptyCreds

RECURSIVE StringsUpTo(_)
StringsUpTo(n) ==
    IF n = 0 THEN { <<>> }
    ELSE LET shorter == StringsUpTo(n - 1) IN
         shorter \cup { Append(s, c) : s \in shorter, c \in CredChars }

CredValues == StringsUpTo(MaxCredLen)

Save(a, b, c) ==
    /\ credFile' = save_credentials(a, b, c)
    /\ saved' = <<a, b, c>>
    /\ loaded' = NoCreds
    /\ UNCHANGED secrets

Load ==
    /\ saved # NoCreds
    /\ loaded = NoCreds
    /\ loaded' = load_credentials(secrets, credFile)
    /\ UNCHANGED <<secrets, credFile, saved>>

(***************************************************************************)
(* Template fetcher                                                        *)
(***************************************************************************)
\* The "language" entry of a template: missing, a string, or an object whose
\* "code" is val (NoneVal when the object has no "code").
LangAbsent     == [kind |-> "absent", val |-> NoneVal]
LangStr(v)     == [kind |-> "str", val |-> v]
LangDict(code) == [kind |-> "dict", val |-> code]

Tpl(n, st, lang) == [name |-> n, status |-> st, language |-> lang]

\* The listings the provider can answer with: an account with templates of
\* every shape of "language", and an account whose only template is not approved.
FullListing ==
    << Tpl("draft", "PENDING", LangStr("id")),
       Tpl("promo", "APPROVED", LangStr("id")),
       Tpl("welcome", "APPROVED", LangDict("en_GB")),
       Tpl("nocode", "APPROVED", LangDict(NoneVal)),
       Tpl("nolang", "APPROVED", LangAbsent),
       Tpl("emptylang", "APPROVED", LangStr("")) >>

DraftListing == << Tpl("draft", "PENDING", LangStr("id")) >>

Listings == {FullListing, DraftListing}

\* What the GET of the template listing can come to: the transport raises, the
\* body is not JSON, the provider answers with a JSON error object (an expired
\* token, a wrong account id), or it answers with a listing.
FetchOutcomes ==
    { [kind |-> "neterr", data |-> <<>>],
      [kind |-> "unparseable", data |-> <<>>],
      [kind |-> "http_error", data |-> <<>>] }
    \cup { [kind |-> "ok", data |-> d] : d \in Listings }

IsApproved(tpl) == tpl.status = "APPROVED"

\* The body of get_whatsapp_templates on a cache miss: requests.get raises on
\* "neterr", resp.json() raises on "unparseable", and resp.json().get("data", [])
\* is [] for an error object.
get_whatsapp_templates(outcome) ==
    IF outcome.kind \in {"neterr", "unparseable"}
    THEN [raised |-> TRUE, value |-> <<>>]
    ELSE [raised |-> FALSE, value |-> SelectSeq(outcome.data, IsApproved)]

\* names = [tpl["name"] for tpl in templates]
Names(tpls) == { tpls[k].name : k \in 1..Len(tpls) }

\* What the operator can type into the fallback text input.
TypedNames == {"hello_world", "promo"}

\* next((t for t in templates if t["name"] == template_name), None); the result
\* is <<>> for None and <<t>> for a template t.
FindTemplate(tpls, name) ==
    LET hits == { k \in 1..Len(tpls) : tpls[k].name = name } IN
    IF hits = {} THEN <<>>
    ELSE <<tpls[CHOOSE k \in hits : \A j \in hits : k <= j]>>

\* lang_entry = tpl.get("language") if tpl else {}
LangEntry(tpl) == IF tpl = <<>> THEN LangDict(NoneVal) ELSE tpl[1].language

\* lang_entry.get("code") if isinstance(lang_entry, dict) else (lang_entry or "en_US")
LangCode(lang_entry) ==
    IF lang_entry.kind = "dict" THEN lang_entry.val
    ELSE IF lang_entry.kind = "absent" \/ lang_entry.val = "" THEN "en_US"
    ELSE lang_entry.val

(***************************************************************************)
(* Leads                                                                   *)
(***************************************************************************)
\* Cells of an uploaded CSV, as the strings astype(str) gives.
RowPlus  == <<"+", "6", "5", " ", "9", "8", "5", "7", "8", "1", "4", "1">>
RowLocal == <<"9", "1", "2", "3", "4", "5", "6", "7">>
RowBad   == <<"n", "o", "t", "a", "n", "u", "m", "b", "e", "r">>

\* The CSV files the operator has at hand: two leads around a row that is no
\* number, one lead, a lead listed twice, and a file without a valid row.
Files ==
    { <<RowPlus, RowBad, RowLocal>>,
      <<RowLocal>>,
      <<RowLocal, RowPlus, RowLocal>>,
      <<RowBad>> }

RECURSIVE MapNormalize(_)
MapNormalize(rows) ==
    IF rows = <<>> THEN <<>>
    ELSE <<normalize_number(Head(rows))>> \o MapNormalize(Tail(rows))

NotNone(x) == x # NoneSeq

\* df_raw["Phone Number"] = ...apply(normalize_number); dropna; tolist()
ValidNumbers(rows) == SelectSeq(MapNormalize(rows), NotNone)

(***************************************************************************)
(* Send handler helpers                                                    *)
(***************************************************************************)
Bodies ==
    { [kind |-> "json_error", text |-> "Invalid parameter"],
      [kind |-> "json_plain", text |-> ""],
      [kind |-> "text", text |-> "Bad Gateway"] }

Responses == [status : {HttpOk, 400}, body : Bodies]

\* try: err = resp.json().get("error", {}).get("message", "")
\* except Exception: err = resp.text
ErrOf(resp) ==
    IF resp.body.kind = "json_error" THEN resp.body.text
    ELSE IF resp.body.kind = "json_plain" THEN ""
    ELSE resp.body.text

IsSuccess(resp) == resp.status = HttpOk

Payload(num, name, code) == [to |-> num, name |-> name, code |-> code]

\* A slip: successful attempts are not logged.
AppendLogFailuresOnly(lg, num, resp) ==
    IF IsSuccess(resp) THEN lg ELSE Append(lg, <<num, resp.status, ErrOf(resp)>>)

\* log.append([num, resp.status_code, err])
AppendLog(lg, num, resp) == Append(lg, <<num, resp.status, ErrOf(resp)>>)

\* A retry loop: the index moves on only after a 200.
NextIndexRetry(i, resp) == IF IsSuccess(resp) THEN i ELSE i - 1

\* for i, num in enumerate(numbers, start=1): the loop moves to the next lead
\* whatever the response was.
NextIndex(i, resp) == i

\* A slip: the counters accumulate over runs.
StoreCounterAdd(old, new) == old + new

\* st.session_state["success"] = success
StoreCounter(old, new) == new

Count200(lg) == Cardinality({ k \in 1..Len(lg) : lg[k][2] = HttpOk })

(***************************************************************************)
(* The Streamlit script                                                    *)
(***************************************************************************)
\* One run of the script from its top to the entry of the send handler:
\* the refresh button clears the cache, the template listing is read through
\* the cache, the template name is picked (or typed, when the fetch raised),
\* the uploaded file replaces the stored leads, and a pressed send button with
\* stored leads starts a batch run.
Rerun(refresh, newFile, send) ==
    /\ pc = "done"
    /\ \E outcome \in (IF cache.has /\ ~refresh
                       THEN { [kind |-> "hit", data |-> <<>>] }
                       ELSE FetchOutcomes) :
        LET res  == IF outcome.kind = "hit"
                    THEN [raised |-> FALSE, value |-> cache.value]
                    ELSE get_whatsapp_templates(outcome)
            nums == IF newFile # NoFile THEN ValidNumbers(newFile) ELSE numbers
        IN
        /\ cache' = IF res.raised THEN NoCache ELSE Cached(res.value)
        /\ lastFetch' = outcome.kind
        /\ templatesDefined' = ~res.raised
        /\ templates' = res.value
        /\ template_name' \in (IF res.raised THEN TypedNames
                               ELSE IF res.value = <<>> THEN {NoneVal}
                               ELSE Names(res.value))
        /\ file' = newFile
        /\ numbers' = nums
        /\ send_btn' = send
        /\ lang_code' = NoneVal
        /\ idx' = 0
        /\ lsuccess' = 0
        /\ lfailure' = 0
        /\ log' = <<>>
        /\ posts' = <<>>
        /\ resps' = <<>>
        /\ IF send /\ nums # <<>>
           THEN pc' = "lang" /\ runState' = "Running"
           ELSE pc' = "done" /\ runState' = "Idle"
        /\ UNCHANGED <<success, failure, lastCounts>>
        /\ UNCHANGED <<normVars, credVars>>

\* The operator uploads (or replaces) the CSV.
Upload == \E f \in Files : Rerun(FALSE, f, FALSE)

\* The operator removes the uploaded file.
RemoveFile == file # NoFile /\ Rerun(FALSE, NoFile, FALSE)

\* Any other interaction reruns the script with the widgets as they are.
PlainRerun == Rerun(FALSE, file, FALSE)

\* The refresh button.
ClickRefresh == Rerun(TRUE, file, FALSE)

\* The send button.
ClickSend == Rerun(FALSE, file, TRUE)

\* The cache entry's ttl of 3600 s runs out.
CacheExpire ==
    /\ pc = "done"
    /\ cache.has
    /\ cache' = NoCache
    /\ UNCHANGED <<numbers, success, failure, file, runVars, normVars, credVars>>

\* Lines 142-147. The name `templates` is unbound when the fetch raised, and
\* the lookup then raises NameError, which ends the script run.
ResolveLang ==
    /\ pc = "lang"
    /\ IF templatesDefined
       THEN /\ lang_code' = LangCode(LangEntry(FindTemplate(templates, template_name)))
            /\ pc' = "post"
            /\ runState' = runState
       ELSE /\ lang_code' = lang_code
            /\ pc' = "done"
            /\ runState' = "Aborted"
    /\ UNCHANGED <<sessVars, lastFetch, templatesDefined, templates, template_name,
                   send_btn, idx, lsuccess, lfailure, log, posts, resps, lastCounts,
                   normVars, credVars>>

\* Lines 149-161: the payload of the next lead goes to requests.post.
Post ==
    /\ pc = "post"
    /\ idx < Len(numbers)
    /\ posts' = Append(posts, Payload(numbers[idx + 1], template_name, lang_code))
    /\ pc' = "wait"
    /\ UNCHANGED <<sessVars, lastFetch, templatesDefined, templates, template_name,
                   send_btn, runState, lang_code, idx, lsuccess, lfailure, log,
                   resps, lastCounts, normVars, credVars>>

\* requests.post raises (no connection, a broken transfer): nothing catches
\* it, and the script run ends.
PostRaises ==
    /\ pc = "wait"
    /\ pc' = "done"
    /\ runState' = "Aborted"
    /\ UNCHANGED <<sessVars, lastFetch, templatesDefined, templates, template_name,
                   send_btn, lang_code, idx, lsuccess, lfailure, log, posts, resps,
                   lastCounts, normVars, credVars>>

\* Lines 162-177: the response is classified, counted and logged.
Respond(resp) ==
    /\ pc = "wait"
    /\ lsuccess' = IF IsSuccess(resp) THEN lsuccess + 1 ELSE lsuccess
    /\ lfailure' = IF IsSuccess(resp) THEN lfailure ELSE lfailure + 1
    /\ log' = AppendLog(log, numbers[idx + 1], resp)
    /\ resps' = Append(resps, resp)
    /\ idx' = NextIndex(idx + 1, resp)
    /\ pc' = "post"
    /\ UNCHANGED <<sessVars, lastFetch, templatesDefined, templates, template_name,
                   send_btn, runState, lang_code, posts, lastCounts, normVars,
                   credVars>>

\* Lines 179-189: the loop is over, the counters go to the session state.
Finish ==
    /\ pc = "post"
    /\ idx >= Len(numbers)
    /\ success' = StoreCounter(success, lsuccess)
    /\ failure' = StoreCounter(failure, lfailure)
    /\ lastCounts' = <<Count200(log), Len(log) - Count200(log)>>
    /\ runState' = "Completed"
    /\ pc' = "done"
    /\ UNCHANGED <<numbers, cache, file, lastFetch, templatesDefined, templates,
                   template_name, send_btn, lang_code, idx, lsuccess, lfailure, log,
                   posts, resps, normVars, credVars>>

(***************************************************************************)
(* Specifications                                                          *)
(***************************************************************************)
InitNorm == nraw = <<>> /\ npieces = 0 /\ nout = Unset /\ nagain = Unset

InitCredIdle == secrets = "absent" /\ credFile = NoFile /\ saved = NoCreds /\ loaded = NoCreds

InitSession ==
    /\ numbers = <<>>
    /\ success = 0
    /\ failure = 0
    /\ cache = NoCache
    /\ file = NoFile
    /\ lastFetch = "none"
    /\ templatesDefined = FALSE
    /\ templates = <<>>
    /\ template_name = NoneVal
    /\ send_btn = FALSE
    /\ pc = "done"
    /\ runState = "Idle"
    /\ lang_code = NoneVal
    /\ idx = 0
    /\ lsuccess = 0
    /\ lfailure = 0
    /\ log = <<>>
    /\ posts = <<>>
    /\ resps = <<>>
    /\ lastCounts = <<0, 0>>

\* The session
Init == InitNorm /\ InitCredIdle /\ InitSession

Next ==
    \/ Upload
    \/ RemoveFile
    \/ PlainRerun
    \/ ClickRefresh
    \/ ClickSend
    \/ CacheExpire
    \/ ResolveLang
    \/ Post
    \/ PostRaises
    \/ \E resp \in Responses : Respond(resp)
    \/ Finish

Spec == Init /\ [][Next]_vars

\* The normaliser on its own
NextNorm ==
    \/ \E tok \in Tokens : NormType(tok) /\ UNCHANGED <<credVars, sessVars, runVars>>
    \/ NormApply /\ UNCHANGED <<credVars, sessVars, runVars>>
    \/ NormAgain /\ UNCHANGED <<credVars, sessVars, runVars>>

SpecNorm == Init /\ [][NextNorm]_vars

\* The credential store on its own
InitCred ==
    /\ InitNorm
    /\ InitSession
    /\ secrets \in {"absent", "partial", "complete"}
    /\ credFile \in {NoFile, PriorFile}
    /\ saved = NoCreds
    /\ loaded = NoCreds

NextCred ==
    \/ /\ saved = NoCreds
       /\ \E a, b, c \in CredValues : Save(a, b, c)
       /\ UNCHANGED <<normVars, sessVars, runVars>>
    \/ Load /\ UNCHANGED <<normVars, sessVars, runVars>>

SpecCred == InitCred /\ [][NextCred]_vars

(***************************************************************************)
(* Properties                                                              *)
(***************************************************************************)
Range(q) == { q[k] : k \in 1..Len(q) }

\* C1: once a batch run has completed, success + failure equals the number N
\* of leads, and the log has exactly N rows whose numbers are the leads in
\* input order.
C1_BatchAccounting ==
    runState = "Completed" =>
        /\ lsuccess + lfailure = Len(numbers)
        /\ success + failure = Len(numbers)
        /\ Len(log) = Len(numbers)
        /\ \A k \in 1..Len(log) : log[k][1] = numbers[k]

C1_Witness ==
    /\ runState = "Completed"
    /\ Len(numbers) = 3
    /\ lsuccess >= 1
    /\ lfailure >= 1

\* C2: every batch run that was started ends Completed with every lead
\* attempted, whatever the responses were; no run ends in a failed state.
C2_RunReachesCompleted ==
    (pc = "done" /\ send_btn /\ numbers # <<>>) =>
        /\ runState = "Completed"
        /\ Len(log) = Len(numbers)

\* C3: an attempt counts as a success exactly when its status is 200, the log
\* row of a successful attempt has an empty error message, and the row of a
\* failed attempt holds the provider's error message or the raw response text.
C3_ClassificationAndMessage ==
    /\ lsuccess = Cardinality({ k \in 1..Len(resps) : resps[k].status = 200 })
    /\ lfailure = Cardinality({ k \in 1..Len(resps) : resps[k].status # 200 })
    /\ Len(log) = Len(resps)
    /\ \A k \in 1..Len(log) :
        /\ log[k][2] = resps[k].status
        /\ resps[k].status = 200 => log[k][3] = ""
        /\ (resps[k].status # 200 /\ resps[k].body.kind \in {"json_error", "text"})
               => log[k][3] = resps[k].body.text

\* The language code the claim C4 expects for the chosen template.
ClaimedLangCode(tpls, name) ==
    LET hits == { k \in 1..Len(tpls) : tpls[k].name = name } IN
    IF hits = {} THEN "en_US"
    ELSE LET lang == tpls[CHOOSE k \in hits : \A j \in hits : k <= j].language IN
         IF lang.kind = "absent" \/ lang.val \in {NoneVal, ""} THEN "en_US" ELSE lang.val

\* C4: the language code of every send payload is the code of the chosen
\* template, and "en_US" when that code is absent or malformed.
C4_LanguageCode ==
    \A k \in 1..Len(posts) : posts[k].code = ClaimedLangCode(templates, template_name)

\* C5: when the template listing fails (transport error, error response,
\* unparseable body) the fetcher raises instead of returning a list, and
\* nothing is cached.
C5_FetchFailurePropagates ==
    lastFetch \in {"neterr", "http_error", "unparseable"} =>
        /\ ~templatesDefined
        /\ ~cache.has

\* C6: after a failed template fetch, a send action with a typed template
\* name and a non-empty lead list runs to Completed and posts once per lead
\* with that name.
C6_FallbackSendCompletes ==
    (pc = "done" /\ send_btn /\ ~templatesDefined /\ numbers # <<>>) =>
        /\ runState = "Completed"
        /\ template_name \in TypedNames
        /\ Len(posts) = Len(numbers)
        /\ \A k \in 1..Len(posts) :
            posts[k].to = numbers[k] /\ posts[k].name = template_name

\* C7 as stated: whatever a, b, c are, the load after save(a, b, c) returns them.
C7_RoundTripAnyValues ==
    loaded # NoCreds => loaded = saved

\* A value the credential file keeps as it is: not empty, one line, no
\* white space at either end.
CleanValue(v) ==
    /\ v # <<>>
    /\ "\n" \notin Range(v)
    /\ ~IsSpace(v[1])
    /\ ~IsSpace(v[Len(v)])

\* C7, amended: when the secrets source does not hold all three keys and each
\* of a, b, c is non-empty, holds no line break and has no white space at
\* either end, the load after save(a, b, c) returns exactly (a, b, c).
C7_RoundTripCleanValues ==
    (/\ loaded # NoCreds
     /\ secrets # "complete"
     /\ \A k \in 1..3 : CleanValue(saved[k])) => loaded = saved

C7_Witness ==
    /\ loaded # NoCreds
    /\ loaded = saved
    /\ secrets = "partial"
    /\ Len(saved[1]) = 2
    /\ Len(saved[2]) = 1

\* C8: normalize_number strips the non-digits and then takes the first rule
\* that applies: ten digits starting with "65" stay as they are; eight digits
\* get "65" in front; nine digits starting with "0" lose the "0" and get "65"
\* in front; anything else is rejected. So a result is ten digits starting
\* with "65", and normalizing a result gives it back.
C8_NormalizeRules ==
    nout # Unset =>
        LET d     == SelectSeq(nraw, LAMBDA c : c \in Digits)
            rule1 == Len(d) = 10 /\ d[1] = "6" /\ d[2] = "5"
            rule2 == ~rule1 /\ Len(d) = 8
            rule3 == ~rule1 /\ ~rule2 /\ Len(d) = 9 /\ d[1] = "0"
        IN
        /\ rule1 => nout = d
        /\ rule2 => nout = <<"6", "5">> \o d
        /\ rule3 => nout = <<"6", "5">> \o SubSeq(d, 2, 9)
        /\ ~(rule1 \/ rule2 \/ rule3) => nout = NoneSeq
        /\ nout # NoneSeq =>
            /\ Len(nout) = 10
            /\ Range(nout) \subseteq Digits
            /\ nout[1] = "6" /\ nout[2] = "5"
        /\ nagain # Unset => nagain = nout

C8_Witness ==
    /\ nagain # Unset
    /\ nagain = nout
    /\ Len(SelectSeq(nraw, LAMBDA c : c \in Digits)) = 9
    /\ Len(nraw) > 9

C10_CountersOfLastRun ==
    /\ [](success = lastCounts[1] /\ failure = lastCounts[2])
    /\ [][(success' # success \/ failure' # failure)
             => (pc = "post" /\ runState' = "Completed"
                 /\ success' = lsuccess /\ failure' = lfailure)]_vars

C10_Witness ==
    /\ runState = "Idle"
    /\ file # NoFile
    /\ success = 1
    /\ failure = 2
    /\ Len(numbers) = 1

====
